---- MODULE Spec2Model ----
(***************************************************************************)
(* Model of frontend/src/store.js: the two Vuex stores remote_store and    *)
(* cached_local_store, their mutations and their asynchronous actions.     *)
(*                                                                         *)
(* A dispatched action is a task.  An async function runs synchronously up *)
(* to its next `await`; every `await` is a suspension point at which any   *)
(* other task may run.  One step of the model executes the code of one     *)
(* task from one suspension point to the next.                             *)
(*                                                                         *)
(* PV names are the naturals 1, 2, 3 standing for "pv1", "pv2", "pv3":     *)
(* their numeric order is the order Array.prototype.sort() gives the       *)
(* strings.  A JS object used as a dictionary is a sequence of entries in  *)
(* key insertion order where the code iterates it, and a function where    *)
(* the code only indexes it.                                               *)
(***************************************************************************)
EXTENDS Integers, Sequences, FiniteSets, TLC

\* ------------------------------------------------------------- bounds
\* Concurrently dispatched actions.
Tasks == {1, 2}
\* Length of a raw sequence of start_query / end_query mutations (SpecTracker).
MaxOps == 8
\* Keys of one IOC's traditional database in a generated snapshot (SpecScan).
MaxDbLen == 2
\* Raw lines of a file entry in a generated snapshot (SpecScan).
MaxLines == 2

\* ------------------------------------------------------------- JS values
Null == [js |-> "null"]
Undefined == [js |-> "undefined"]
Value(v) == [js |-> "value", v |-> v]

\* A pattern argument that is null or undefined (pattern == null is true of both).
NullPattern == "<null>"

PVNames == {1, 2, 3}
IocNames == {"A", "Z"}
FileNames == {"f1", "f2", "nofile"}
PluginNames == {"happi"}
PluginKeys == {"k"}
Patterns == {NullPattern, "", "*", "pv1", "("}
MaxPvsChoices == {10, 20}

\* Dictionary helpers: a JS object as a TLA+ function.
EmptyObj == << >>
HasKey(obj, k) == k \in DOMAIN obj
Put(obj, k, v) == (k :> v) @@ obj

RECURSIVE SeqToSet(_)
SeqToSet(s) == IF s = << >> THEN {} ELSE {Head(s)} \cup SeqToSet(Tail(s))

\* ------------------------------------------------------------- snapshots
\* An entry of cache.iocs: {md, ioc: {shell_state: {database, pva_database,
\* database_definition}}}.  database is the sequence of its records in key
\* order, pva_database the sequence of its group names in key order.
Rec(name, type) == [name |-> name, record_type |-> type]
Md(ioc) == [name |-> ioc]
Group(ioc, name) == [group |-> name, ioc |-> ioc]
Definition(type) == [record_type |-> type]

\* The snapshot of the specification's example: A: [pv1, pv2], B: [pv2, pv3].
DocExample ==
  [keys |-> {"iocs", "files"},
   iocs |-> << [name |-> "A", md |-> Md("A"),
                database |-> << Rec(1, "ai"), Rec(2, "ai") >>,
                pva_database |-> << >>,
                has_dbd |-> TRUE, record_types |-> {"ai"}],
               [name |-> "B", md |-> Md("B"),
                database |-> << Rec(2, "ai"), Rec(3, "xx") >>,
                pva_database |-> << >>,
                has_dbd |-> TRUE, record_types |-> {"ai"}] >>,
   files |-> [f \in {"f1", "f2"} |->
                IF f = "f1" THEN [has_script |-> TRUE, has_lines |-> FALSE, lines |-> << >>]
                ELSE [has_script |-> FALSE, has_lines |-> TRUE, lines |-> << "l1", "l2" >>]]]

\* One IOC whose keys are not in sorted order and which exposes pv1 both as a
\* traditional record and as a group; no database definition.
DocMixed ==
  [keys |-> {"iocs", "files"},
   iocs |-> << [name |-> "A", md |-> Md("A"),
                database |-> << Rec(2, "ai"), Rec(1, "ai") >>,
                pva_database |-> << 1 >>,
                has_dbd |-> FALSE, record_types |-> {}] >>,
   files |-> [f \in {"f2"} |->
                [has_script |-> FALSE, has_lines |-> TRUE, lines |-> << "l1", "l2" >>]]]

\* The document {}: neither `iocs` nor `files`.  Also the fallback value that
\* load_cached_whatrecord_data returns when the fetch fails.
EmptyDoc == [keys |-> {}, iocs |-> << >>, files |-> EmptyObj]

Docs == {DocExample, DocMixed, EmptyDoc}

\* Generated snapshots.  Sequences without repetition (the keys of an object).
DistinctSeqs(S, maxlen) ==
  {q \in UNION {[1..k -> S] : k \in 0..maxlen} :
     \A i, j \in DOMAIN q : i # j => q[i] # q[j]}

\* Record pv3 is of a type no database definition registers.
TypeOf(name) == IF name = 3 THEN "xx" ELSE "ai"

GenIoc(ioc, names, groups, has_dbd) ==
  [name |-> ioc, md |-> Md(ioc),
   database |-> [i \in DOMAIN names |-> Rec(names[i], TypeOf(names[i]))],
   pva_database |-> groups,
   has_dbd |-> has_dbd, record_types |-> IF has_dbd THEN {"ai"} ELSE {}]

\* Two IOCs, A with a database definition and B without one, over every
\* choice of their record keys and of at most one group key each.
IocDocs ==
  {[keys |-> {"iocs", "files"},
    iocs |-> << GenIoc("A", da, pa, TRUE), GenIoc("B", db, pb, FALSE) >>,
    files |-> EmptyObj] :
     da \in DistinctSeqs(PVNames, MaxDbLen), db \in DistinctSeqs(PVNames, MaxDbLen),
     pa \in DistinctSeqs(PVNames, 1), pb \in DistinctSeqs(PVNames, 1)}

\* An entry of cache.files: has_script and has_lines say whether the entry's
\* `script` and `lines` are truthy (an empty array is).
FileEntries ==
  {[has_script |-> sc, has_lines |-> TRUE, lines |-> ls] :
     sc \in BOOLEAN, ls \in UNION {[1..k -> {"l1", "l2"}] : k \in 0..MaxLines}}
  \cup {[has_script |-> sc, has_lines |-> FALSE, lines |-> << >>] : sc \in BOOLEAN}

FileDocs ==
  {[keys |-> {"iocs", "files"}, iocs |-> << >>, files |-> [f \in {"f1"} |-> e]] :
     e \in FileEntries}

ScanDocs == IocDocs \cup FileDocs \cup {EmptyDoc}

\* ------------------------------------------------------------- variables
VARIABLES
  backend,   \* which store the behaviour exercises: "remote" or "local"
  server,    \* the deployment data the server holds (served at /cache.json.gz)
  state,     \* the Vuex state of the store
  task,      \* the dispatched actions: position, arguments, locals, outcome
  nops       \* SpecTracker: number of raw mutations applied

vars == << backend, server, state, task, nops >>

\* ------------------------------------------------------------- state
remote_state ==
  [duplicates |-> EmptyObj, file_info |-> EmptyObj, gateway_info |-> Null,
   glob_to_pvs |-> EmptyObj, ioc_info |-> << >>, ioc_to_records |-> EmptyObj,
   plugin_info |-> EmptyObj, plugin_nested_info |-> EmptyObj,
   pv_relations |-> EmptyObj, queries_in_progress |-> 0,
   query_in_progress |-> FALSE, record_info |-> EmptyObj,
   regex_to_pvs |-> EmptyObj]

cached_local_state ==
  [cache |-> Null, file_stream |-> Null,
   duplicates |-> EmptyObj, file_info |-> EmptyObj, gateway_info |-> Null,
   glob_to_pvs |-> EmptyObj, ioc_info |-> << >>, ioc_to_records |-> EmptyObj,
   plugin_info |-> EmptyObj, plugin_nested_info |-> EmptyObj,
   pv_relations |-> EmptyObj, queries_in_progress |-> 0,
   query_in_progress |-> FALSE, record_info |-> EmptyObj,
   regex_to_pvs |-> EmptyObj]

\* ------------------------------------------------------------- mutations
\* The mutations of the two stores are textually the same.
start_query(s) ==
  [s EXCEPT !.queries_in_progress = @ + 1, !.query_in_progress = TRUE]

end_query_no_floor(s) ==
  LET n == s.queries_in_progress - 1
  IN  [s EXCEPT !.queries_in_progress = n,
                !.query_in_progress = IF n = 0 THEN FALSE ELSE @]

end_query(s) ==
  LET n == IF s.queries_in_progress > 0
           THEN s.queries_in_progress - 1
           ELSE s.queries_in_progress
  IN  [s EXCEPT !.queries_in_progress = n,
                !.query_in_progress = IF n = 0 THEN FALSE ELSE @]

add_record_search_results_one_cache(s, pattern, pv_list, regex) ==
  [s EXCEPT !.glob_to_pvs = Put(@, pattern, pv_list)]

add_record_search_results(s, pattern, pv_list, regex) ==
  IF regex
  THEN [s EXCEPT !.regex_to_pvs = Put(@, pattern, pv_list)]
  ELSE [s EXCEPT !.glob_to_pvs = Put(@, pattern, pv_list)]

set_cache(s, cache) == [s EXCEPT !.cache = cache]

set_duplicates(s, duplicates) == [s EXCEPT !.duplicates = duplicates]

set_file_info(s, filename, info) == [s EXCEPT !.file_info = Put(@, filename, info)]

set_ioc_info(s, ioc_info) == [s EXCEPT !.ioc_info = ioc_info]

set_gateway_info(s, gateway_info) == [s EXCEPT !.gateway_info = gateway_info]

set_plugin_info(s, plugin_name, plugin_info) ==
  [s EXCEPT !.plugin_info = Put(@, plugin_name, plugin_info)]

set_plugin_nested_keys(s, plugin_name, keys) ==
  LET cur == IF HasKey(s.plugin_nested_info, plugin_name)
             THEN s.plugin_nested_info[plugin_name]
             ELSE [keys |-> Null, info |-> EmptyObj]
  IN  [s EXCEPT !.plugin_nested_info = Put(@, plugin_name, [cur EXCEPT !.keys = keys])]

set_plugin_nested_info(s, plugin_name, key, info) ==
  LET cur == IF HasKey(s.plugin_nested_info, plugin_name)
             THEN s.plugin_nested_info[plugin_name]
             ELSE [keys |-> << >>, info |-> EmptyObj]
  IN  [s EXCEPT !.plugin_nested_info =
                  Put(@, plugin_name, [cur EXCEPT !.info = Put(@, key, info)])]

add_record_info(s, record, info) == [s EXCEPT !.record_info = Put(@, record, info)]

set_ioc_records(s, ioc_name, records) ==
  [s EXCEPT !.ioc_to_records = Put(@, ioc_name, records)]

set_pv_relations(s, data) == [s EXCEPT !.pv_relations = data]

\* ------------------------------------------------------------- pure helpers
RECURSIVE SortedSeq(_)
\* Array.prototype.sort() of an array of distinct names.
SortedSeq(S) ==
  IF S = {} THEN << >>
  ELSE LET m == CHOOSE x \in S : \A y \in S : x <= y
       IN  << m >> \o SortedSeq(S \ {m})

RECURSIVE SelectNames(_, _)
\* The elements of a sequence that satisfy a membership test, in order.
SelectNames(s, keep) ==
  IF s = << >> THEN << >>
  ELSE (IF Head(s) \in keep THEN << Head(s) >> ELSE << >>) \o SelectNames(Tail(s), keep)

RecNames(database) == [i \in 1..Len(database) |-> database[i].name]

\* cache.iocs and cache.files are undefined when the document lacks the key.
HasIocs(cache) == "iocs" \in cache.keys
HasFiles(cache) == "files" \in cache.keys

\* ------------------------------------------------------------- PatternMatcher
\* new RegExp(pattern) throws a SyntaxError for these strings.
MalformedRegex == {"*", "("}

RegExpCompilesAnything(pattern) == TRUE

\* Whether new RegExp(pattern) constructs.
RegExpCompiles(pattern) == pattern \notin MalformedRegex

\* re.test(name): an unanchored search of the name "pv<name>".
RegExpTest(pattern, name) ==
  CASE pattern = ""    -> TRUE
    [] pattern = ".*"  -> TRUE
    [] pattern = "pv1" -> name = 1
    [] OTHER           -> FALSE

\* wcmatch(pattern)(name): the whole name must match the wildcard pattern.
GlobTest(pattern, name) ==
  CASE pattern = "*"   -> TRUE
    [] pattern = "pv1" -> name = 1
    [] OTHER           -> FALSE

Matcher(pattern, regex, name) ==
  IF regex THEN RegExpTest(pattern, name) ELSE GlobTest(pattern, name)

\* ------------------------------------------------------------- snapshot scans
RECURSIVE ScanMatches(_, _, _)
\* The `matches` array of cached_local_store.find_record_matches: for every
\* IOC in order, the matching traditional names, then the matching group names.
ScanMatches(iocs, pattern, regex) ==
  IF iocs = << >> THEN << >>
  ELSE LET ioc  == Head(iocs)
           keep == {n \in PVNames : Matcher(pattern, regex, n)}
       IN  SelectNames(RecNames(ioc.database), keep)
             \o SelectNames(ioc.pva_database, keep)
             \o ScanMatches(Tail(iocs), pattern, regex)

\* Array.from(new Set(matches)).sort()
DedupSorted(matches) == SortedSeq(SeqToSet(matches))

RECURSIVE Owners(_, _)
\* dupes[pvname] after the scan loop of update_duplicates: the IOC name is
\* pushed once for a key of database and once for a key of pva_database.
Owners(iocs, pvname) ==
  IF iocs = << >> THEN << >>
  ELSE LET ioc == Head(iocs)
       IN  (IF pvname \in SeqToSet(RecNames(ioc.database)) THEN << ioc.name >> ELSE << >>)
             \o (IF pvname \in SeqToSet(ioc.pva_database) THEN << ioc.name >> ELSE << >>)
             \o Owners(Tail(iocs), pvname)

\* The object committed by update_duplicates: the names left after deleting
\* every name whose owner array has length <= 1.
ComputeDupes(iocs) ==
  LET kept == {n \in PVNames : Len(Owners(iocs, n)) > 1}
  IN  [n \in kept |-> Owners(iocs, n)]

LookupRecord(database, record_name) ==
  LET hits == {i \in 1..Len(database) : database[i].name = record_name}
  IN  IF hits = {} THEN Null ELSE database[CHOOSE i \in hits : TRUE]

LookupDefinitionAnyType(ioc, record_type) ==
  IF ioc.has_dbd THEN Definition(record_type) ELSE Null

\* database_definition?.record_types[record_type] ?? null
LookupDefinition(ioc, record_type) ==
  IF ioc.has_dbd /\ record_type \in ioc.record_types
  THEN Definition(record_type) ELSE Null

V3Info(ioc, record_name) ==
  LET v3_record == LookupRecord(ioc.database, record_name)
      whatrec == [name |-> record_name, ioc |-> ioc.md,
                  record |-> [definition |-> LookupDefinition(ioc, v3_record.record_type),
                              instance |-> v3_record],
                  pva_group |-> Null]
  IN  [pv_name |-> record_name, present |-> TRUE, info |-> << whatrec >>]

V4Info(ioc, record_name) ==
  LET whatrec == [name |-> record_name, ioc |-> ioc.md,
                  record |-> [definition |-> Null, instance |-> Null],
                  pva_group |-> Group(ioc.name, record_name)]
  IN  [pv_name |-> record_name, present |-> TRUE, info |-> << whatrec >>]

RECURSIVE RecordInfoCommits(_, _)
\* The payloads of the add_record_info commits of
\* cached_local_store.get_record_info, in the order it commits them.
RecordInfoCommits(iocs, record_name) ==
  IF iocs = << >> THEN << >>
  ELSE LET ioc == Head(iocs)
       IN  (IF LookupRecord(ioc.database, record_name) # Null
            THEN << V3Info(ioc, record_name) >> ELSE << >>)
             \o (IF record_name \in SeqToSet(ioc.pva_database)
                 THEN << V4Info(ioc, record_name) >> ELSE << >>)
             \o RecordInfoCommits(Tail(iocs), record_name)

FindIoc(iocs, ioc_name) ==
  LET hits == {i \in 1..Len(iocs) : iocs[i].name = ioc_name}
  IN  IF hits = {} THEN Null ELSE iocs[CHOOSE i \in hits : TRUE]

\* [].concat(Object.values(database), Object.values(pva_database))
IocRecords(ioc) ==
  ioc.database \o [i \in 1..Len(ioc.pva_database) |-> Group(ioc.name, ioc.pva_database[i])]

LineByLineInfoFromZero(filename, lines) ==
  [script |-> [path |-> filename,
               lines |-> [i \in 1..Len(lines) |->
                            [context |-> << << filename, i - 1 >> >>, line |-> lines[i]]]],
   ioc |-> Null]

\* The info get_file_info builds from an entry that has lines and no script.
LineByLineInfo(filename, lines) ==
  [script |-> [path |-> filename,
               lines |-> [i \in 1..Len(lines) |->
                            [context |-> << << filename, i >> >>, line |-> lines[i]]]],
   ioc |-> Null]

\* ------------------------------------------------------------- the server
\* What the remote API answers for the deployment data it holds.
ServerDocument(url, params) == [url |-> url, params |-> params]

ServerIocMatches == [matches |-> [i \in 1..Len(server.iocs) |-> server.iocs[i].md]]

ServerPluginInfo(plugin) == (plugin :> ServerDocument("/api/plugin/info", plugin))

ServerIocPvs(ioc_name) ==
  LET ioc == FindIoc(server.iocs, ioc_name)
  IN  [matches |-> IF ioc = Null THEN << >>
                   ELSE << << ioc_name, IocRecords(ioc) >> >>]

ServerDuplicates ==
  LET owners(n) == {server.iocs[i].name : i \in
                      {j \in 1..Len(server.iocs) :
                         n \in SeqToSet(RecNames(server.iocs[j].database))
                               \cup SeqToSet(server.iocs[j].pva_database)}}
      dup == {n \in PVNames : Cardinality(owners(n)) >= 2}
  IN  [duplicates |-> [n \in dup |-> owners(n)]]

ServerAllNames ==
  UNION {SeqToSet(RecNames(server.iocs[i].database)) \cup SeqToSet(server.iocs[i].pva_database)
           : i \in 1..Len(server.iocs)}

\* /api/pv/matches answers only a pattern it can compile.
ServerAccepts(query_pattern, regex) == ~regex \/ query_pattern \notin MalformedRegex

ServerPvMatches(query_pattern, regex) ==
  [matches |-> SortedSeq({n \in ServerAllNames : Matcher(query_pattern, regex, n)})]

\* ------------------------------------------------------------- tasks
NoArg == [none |-> TRUE]

\* pc: "idle" (not dispatched), "started" (at await commit("start_query")),
\* "net" (at await axios.get), "committed" (at await commit(<result>)),
\* "ending" (at await commit("end_query")), "loaded" (at await dispatch(
\* "load_cached_whatrecord_data"), the load having resolved), "done".
\* The load's own suspension points are "ld_started", "ld_net",
\* "ld_committed" and "ld_ending".
\* after, begun, ended, reqs, scans, stored, compiles and cached record what
\* the task did (tasks done at its dispatch, start_query and end_query commits,
\* URLs requested, snapshot scans, add_record_search_results commits, RegExp
\* constructions, set_cache commits), and joined the tasks whose snapshot load
\* was in flight when this one entered its own: they are read by the
\* properties only.
IdleTask ==
  [pc |-> "idle", act |-> "none", arg |-> NoArg,
   cache |-> Null, pending |-> << >>, ret |-> Undefined, status |-> "pending",
   after |-> {}, begun |-> 0, ended |-> 0, reqs |-> << >>, scans |-> 0,
   stored |-> 0, compiles |-> 0, cached |-> 0, joined |-> {}]

DoneTasks == {u \in Tasks : task[u].pc = "done"}

\* Tasks are dispatched in the order of their numbers.
CanDispatch(t) ==
  /\ task[t].pc = "idle"
  /\ \A u \in Tasks : u < t => task[u].pc # "idle"

Call(a, arg) == [IdleTask EXCEPT !.act = a, !.arg = arg, !.after = DoneTasks]

At(t, a, pc) == task[t].act = a /\ task[t].pc = pc

SetTask(t, r) == task' = [task EXCEPT ![t] = r]

Frame == UNCHANGED << backend, server, nops >>

\* The action returns without suspending.
ReturnNow(t, a, arg, ret) ==
  /\ SetTask(t, [Call(a, arg) EXCEPT !.pc = "done", !.status = "returned", !.ret = ret])
  /\ UNCHANGED state
  /\ Frame

\* The action throws before its first await: the promise is rejected.
ThrowNow(t, a, arg) ==
  /\ SetTask(t, [Call(a, arg) EXCEPT !.pc = "done", !.status = "threw"])
  /\ UNCHANGED state
  /\ Frame

\* await context.commit("start_query") as the first statement of the action.
Begin(t, a, arg) ==
  /\ state' = start_query(state)
  /\ SetTask(t, [Call(a, arg) EXCEPT !.pc = "started", !.begun = 1])
  /\ Frame

\* const response = await axios.get(url, ...)
Get(t, url) ==
  /\ SetTask(t, [task[t] EXCEPT !.pc = "net", !.reqs = Append(@, url)])
  /\ UNCHANGED state
  /\ Frame

\* The request succeeded: the result is committed and the return value fixed.
Ok(t, committed, ret) ==
  /\ state' = committed
  /\ SetTask(t, [task[t] EXCEPT !.pc = "committed", !.ret = ret])
  /\ Frame

FailNoFinally(t) ==
  /\ SetTask(t, [task[t] EXCEPT !.pc = "ending", !.ret = Undefined])
  /\ UNCHANGED state
  /\ Frame

FailCommitsEmptyResult(t) ==
  /\ state' = end_query(set_gateway_info(state, Undefined))
  /\ SetTask(t, [task[t] EXCEPT !.pc = "ending", !.ret = Undefined, !.ended = @ + 1])
  /\ Frame

\* The request failed: catch logs, finally commits end_query.
Fail(t) ==
  /\ state' = end_query(state)
  /\ SetTask(t, [task[t] EXCEPT !.pc = "ending", !.ret = Undefined, !.ended = @ + 1])
  /\ Frame

\* return <value> in the try block: finally commits end_query.
Finally(t) ==
  /\ state' = end_query(state)
  /\ SetTask(t, [task[t] EXCEPT !.pc = "ending", !.ended = @ + 1])
  /\ Frame

\* The action's promise resolves with the value returned.
Resolve(t) ==
  /\ SetTask(t, [task[t] EXCEPT !.pc = "done", !.status = "returned"])
  /\ UNCHANGED state
  /\ Frame

\* The action throws after a suspension: the promise is rejected.
Throw(t) ==
  /\ SetTask(t, [task[t] EXCEPT !.pc = "done", !.status = "threw"])
  /\ UNCHANGED state
  /\ Frame

\* ------------------------------------------------------------- remote_store
remote_update_ioc_info(t) ==
  /\ backend = "remote"
  /\ \/ /\ CanDispatch(t)
        /\ IF Len(state.ioc_info) > 0
           THEN ReturnNow(t, "update_ioc_info", NoArg, Value(state.ioc_info))
           ELSE Begin(t, "update_ioc_info", NoArg)
     \/ /\ At(t, "update_ioc_info", "started")
        /\ Get(t, "/api/ioc/matches")
     \/ /\ At(t, "update_ioc_info", "net")
        /\ \/ Ok(t, set_ioc_info(state, ServerIocMatches.matches),
                 Value(ServerIocMatches.matches))
           \/ Fail(t)
     \/ /\ At(t, "update_ioc_info", "committed")
        /\ Finally(t)
     \/ /\ At(t, "update_ioc_info", "ending")
        /\ Resolve(t)

\* update_gateway_info, update_plugin_info, get_plugin_nested_keys,
\* get_plugin_nested_info and get_pv_relations are the same code in both stores.
update_gateway_info(t) ==
  \/ /\ CanDispatch(t)
     /\ Begin(t, "update_gateway_info", NoArg)
  \/ /\ At(t, "update_gateway_info", "started")
     /\ Get(t, "/api/gateway/info")
  \/ /\ At(t, "update_gateway_info", "net")
     /\ LET data == ServerDocument("/api/gateway/info", NoArg)
        IN  \/ Ok(t, set_gateway_info(state, data), Value(data))
            \/ Fail(t)
  \/ /\ At(t, "update_gateway_info", "committed")
     /\ Finally(t)
  \/ /\ At(t, "update_gateway_info", "ending")
     /\ Resolve(t)

update_plugin_info(t) ==
  \/ /\ CanDispatch(t)
     /\ \E plugin \in PluginNames :
          Begin(t, "update_plugin_info", [plugin |-> plugin])
  \/ /\ At(t, "update_plugin_info", "started")
     /\ Get(t, "/api/plugin/info")
  \/ /\ At(t, "update_plugin_info", "net")
     /\ LET plugin == task[t].arg.plugin
            data == ServerPluginInfo(plugin)
        IN  \/ Ok(t, set_plugin_info(state, plugin, data[plugin]), Value(data))
            \/ Fail(t)
  \/ /\ At(t, "update_plugin_info", "committed")
     /\ Finally(t)
  \/ /\ At(t, "update_plugin_info", "ending")
     /\ Resolve(t)

get_plugin_nested_keys(t) ==
  \/ /\ CanDispatch(t)
     /\ \E plugin \in PluginNames :
          Begin(t, "get_plugin_nested_keys", [plugin |-> plugin])
  \/ /\ At(t, "get_plugin_nested_keys", "started")
     /\ Get(t, "/api/plugin/nested/keys")
  \/ /\ At(t, "get_plugin_nested_keys", "net")
     /\ LET plugin == task[t].arg.plugin
            data == ServerDocument("/api/plugin/nested/keys", plugin)
        IN  \/ Ok(t, set_plugin_nested_keys(state, plugin, data), Value(data))
            \/ Fail(t)
  \/ /\ At(t, "get_plugin_nested_keys", "committed")
     /\ Finally(t)
  \/ /\ At(t, "get_plugin_nested_keys", "ending")
     /\ Resolve(t)

get_plugin_nested_info(t) ==
  \/ /\ CanDispatch(t)
     /\ \E plugin \in PluginNames, key \in PluginKeys :
          Begin(t, "get_plugin_nested_info", [plugin |-> plugin, key |-> key])
  \/ /\ At(t, "get_plugin_nested_info", "started")
     /\ Get(t, "/api/plugin/nested/info")
  \/ /\ At(t, "get_plugin_nested_info", "net")
     /\ LET plugin == task[t].arg.plugin
            key == task[t].arg.key
            data == ServerDocument("/api/plugin/nested/info", << plugin, key >>)
        IN  \/ Ok(t, set_plugin_nested_info(state, plugin, key, data), Value(data))
            \/ Fail(t)
  \/ /\ At(t, "get_plugin_nested_info", "committed")
     /\ Finally(t)
  \/ /\ At(t, "get_plugin_nested_info", "ending")
     /\ Resolve(t)

\* The action has no record_name parameter: evaluating `record_name in ...`
\* throws a ReferenceError, so the code after it never runs.
remote_get_record_info(t) ==
  /\ backend = "remote"
  /\ CanDispatch(t)
  /\ \E record_name \in PVNames :
       ThrowNow(t, "get_record_info", [record_name |-> record_name])

remote_get_ioc_records(t) ==
  /\ backend = "remote"
  /\ \/ /\ CanDispatch(t)
        /\ \E ioc_name \in IocNames :
             Begin(t, "get_ioc_records", [ioc_name |-> ioc_name])
     \/ /\ At(t, "get_ioc_records", "started")
        /\ Get(t, "/api/ioc/pvs")
     \/ /\ At(t, "get_ioc_records", "net")
        /\ LET ioc_name == task[t].arg.ioc_name
               data == ServerIocPvs(ioc_name)
               records == IF Len(data.matches) > 0 THEN data.matches[1][2] ELSE << >>
           IN  \/ Ok(t, set_ioc_records(state, ioc_name, records), Value(records))
               \/ Fail(t)
     \/ /\ At(t, "get_ioc_records", "committed")
        /\ Finally(t)
     \/ /\ At(t, "get_ioc_records", "ending")
        /\ Resolve(t)

remote_get_file_info(t) ==
  /\ backend = "remote"
  /\ \/ /\ CanDispatch(t)
        /\ \E filename \in FileNames :
             Begin(t, "get_file_info", [filename |-> filename])
     \/ /\ At(t, "get_file_info", "started")
        /\ Get(t, "/api/file/info")
     \/ /\ At(t, "get_file_info", "net")
        /\ LET filename == task[t].arg.filename
               data == ServerDocument("/api/file/info", filename)
           IN  \/ Ok(t, set_file_info(state, filename, data), Value(data))
               \/ Fail(t)
     \/ /\ At(t, "get_file_info", "committed")
        /\ Finally(t)
     \/ /\ At(t, "get_file_info", "ending")
        /\ Resolve(t)

remote_update_duplicates(t) ==
  /\ backend = "remote"
  /\ \/ /\ CanDispatch(t)
        /\ Begin(t, "update_duplicates", NoArg)
     \/ /\ At(t, "update_duplicates", "started")
        /\ Get(t, "/api/pv/duplicates")
     \/ /\ At(t, "update_duplicates", "net")
        /\ LET data == ServerDuplicates
           IN  \/ Ok(t, set_duplicates(state, data.duplicates), Value(data))
               \/ Fail(t)
     \/ /\ At(t, "update_duplicates", "committed")
        /\ Finally(t)
     \/ /\ At(t, "update_duplicates", "ending")
        /\ Resolve(t)

get_pv_relations(t) ==
  \/ /\ CanDispatch(t)
     /\ Begin(t, "get_pv_relations", NoArg)
  \/ /\ At(t, "get_pv_relations", "started")
     /\ Get(t, "/api/pv/relations")
  \/ /\ At(t, "get_pv_relations", "net")
     /\ LET data == ServerDocument("/api/pv/relations", [pv |-> "*", glob |-> TRUE, full |-> FALSE])
        IN  \/ Ok(t, set_pv_relations(state, data), Value(data))
            \/ Fail(t)
  \/ /\ At(t, "get_pv_relations", "committed")
     /\ Finally(t)
  \/ /\ At(t, "get_pv_relations", "ending")
     /\ Resolve(t)

\* const query_pattern = pattern || (regex ? ".*" : "*")
QueryPattern(pattern, regex) ==
  IF pattern = "" THEN (IF regex THEN ".*" ELSE "*") ELSE pattern

\* The arguments searches are dispatched with: every pattern in both modes
\* with the first limit, and "pv1" (valid in both modes) with every limit.
SearchArgs ==
  {arg \in [pattern : Patterns, max_pvs : MaxPvsChoices, regex : BOOLEAN] :
     arg.max_pvs = 10 \/ arg.pattern = "pv1"}

remote_find_record_matches(t) ==
  /\ backend = "remote"
  /\ \/ /\ CanDispatch(t)
        /\ \E arg \in SearchArgs :
             IF arg.pattern = NullPattern
             THEN ReturnNow(t, "find_record_matches", arg, Undefined)
             ELSE IF ~arg.regex /\ HasKey(state.glob_to_pvs, arg.pattern)
             THEN ReturnNow(t, "find_record_matches", arg,
                            Value(state.glob_to_pvs[arg.pattern]))
             ELSE IF arg.regex /\ HasKey(state.regex_to_pvs, arg.pattern)
             THEN ReturnNow(t, "find_record_matches", arg,
                            Value(state.regex_to_pvs[arg.pattern]))
             ELSE Begin(t, "find_record_matches", arg)
     \/ /\ At(t, "find_record_matches", "started")
        /\ Get(t, "/api/pv/matches")
     \/ /\ At(t, "find_record_matches", "net")
        /\ LET arg == task[t].arg
               query_pattern == QueryPattern(arg.pattern, arg.regex)
               matches == ServerPvMatches(query_pattern, arg.regex).matches
           IN  \/ /\ ServerAccepts(query_pattern, arg.regex)
                  /\ state' = add_record_search_results(state, arg.pattern, matches, arg.regex)
                  /\ SetTask(t, [task[t] EXCEPT !.pc = "committed", !.ret = Value(matches),
                                                !.stored = @ + 1])
                  /\ Frame
               \/ Fail(t)
     \/ /\ At(t, "find_record_matches", "committed")
        /\ Finally(t)
     \/ /\ At(t, "find_record_matches", "ending")
        /\ Resolve(t)

\* ------------------------------------------------------------- cached_local_store
\* The synchronous part of context.dispatch("load_cached_whatrecord_data"),
\* run by action a as it is dispatched.
LoadInFlight == {"ld_started", "ld_net", "ld_committed", "ld_ending"}

LoadEnter(t, a, arg) ==
  /\ IF state.cache # Null
     THEN /\ SetTask(t, [Call(a, arg) EXCEPT !.pc = "loaded", !.cache = state.cache])
          /\ UNCHANGED state
     ELSE /\ state' = start_query(state)
          /\ SetTask(t, [Call(a, arg) EXCEPT
                           !.pc = "ld_started", !.begun = 1,
                           !.joined = {u \in Tasks : task[u].pc \in LoadInFlight}])
  /\ Frame

LoadFailCachesFallback(t) ==
  /\ state' = end_query(set_cache(state, EmptyDoc))
  /\ SetTask(t, [task[t] EXCEPT !.pc = "ld_ending", !.cache = EmptyDoc, !.ended = @ + 1,
                                !.cached = @ + 1])
  /\ Frame

\* The fetch failed: catch returns {}, finally commits end_query.
LoadFail(t) ==
  /\ state' = end_query(state)
  /\ SetTask(t, [task[t] EXCEPT !.pc = "ld_ending", !.cache = EmptyDoc, !.ended = @ + 1])
  /\ Frame

\* The steps of load_cached_whatrecord_data, dispatched directly or by
\* another action of the store.
load_cached_whatrecord_data(t) ==
  /\ backend = "local"
  /\ \/ /\ CanDispatch(t)
        /\ LoadEnter(t, "load_cached_whatrecord_data", NoArg)
     \/ /\ task[t].pc = "ld_started"
        /\ SetTask(t, [task[t] EXCEPT !.pc = "ld_net", !.reqs = Append(@, "/cache.json.gz")])
        /\ UNCHANGED state
        /\ Frame
     \/ /\ task[t].pc = "ld_net"
        /\ \/ /\ state' = set_cache(state, server)
              /\ SetTask(t, [task[t] EXCEPT !.pc = "ld_committed", !.cache = server,
                                            !.cached = @ + 1])
              /\ Frame
           \/ LoadFail(t)
     \/ /\ task[t].pc = "ld_committed"
        /\ state' = end_query(state)
        /\ SetTask(t, [task[t] EXCEPT !.pc = "ld_ending", !.ended = @ + 1])
        /\ Frame
     \/ /\ task[t].pc = "ld_ending"
        /\ SetTask(t, [task[t] EXCEPT !.pc = "loaded"])
        /\ UNCHANGED state
        /\ Frame
     \/ /\ At(t, "load_cached_whatrecord_data", "loaded")
        /\ SetTask(t, [task[t] EXCEPT !.pc = "done", !.status = "returned",
                                      !.ret = Value(task[t].cache)])
        /\ UNCHANGED state
        /\ Frame

local_update_ioc_info(t) ==
  /\ backend = "local"
  /\ \/ /\ CanDispatch(t)
        /\ IF Len(state.ioc_info) > 0
           THEN ReturnNow(t, "update_ioc_info", NoArg, Value(state.ioc_info))
           ELSE LoadEnter(t, "update_ioc_info", NoArg)
     \/ /\ At(t, "update_ioc_info", "loaded")
        /\ LET cache == task[t].cache
           IN  IF ~HasIocs(cache)
               THEN Throw(t)
               ELSE /\ state' = set_ioc_info(state,
                                  [i \in 1..Len(cache.iocs) |-> cache.iocs[i].md])
                    /\ SetTask(t, [task[t] EXCEPT !.pc = "committed"])
                    /\ Frame
     \/ /\ At(t, "update_ioc_info", "committed")
        /\ Resolve(t)

local_get_record_info(t) ==
  /\ backend = "local"
  /\ \/ /\ CanDispatch(t)
        /\ \E record_name \in PVNames :
             IF HasKey(state.record_info, record_name)
             THEN ReturnNow(t, "get_record_info", [record_name |-> record_name],
                            Value(state.record_info[record_name]))
             ELSE LoadEnter(t, "get_record_info", [record_name |-> record_name])
     \/ /\ At(t, "get_record_info", "loaded")
        /\ LET cache == task[t].cache
               commits == RecordInfoCommits(cache.iocs, task[t].arg.record_name)
           IN  IF ~HasIocs(cache)
               THEN Throw(t)
               ELSE IF commits = << >>
               THEN /\ SetTask(t, [task[t] EXCEPT !.pc = "done", !.status = "returned",
                                                  !.scans = @ + 1])
                    /\ UNCHANGED state
                    /\ Frame
               ELSE /\ state' = add_record_info(state, task[t].arg.record_name, Head(commits))
                    /\ SetTask(t, [task[t] EXCEPT !.pc = "committed", !.scans = @ + 1,
                                                  !.pending = Tail(commits)])
                    /\ Frame
     \/ /\ At(t, "get_record_info", "committed")
        /\ IF task[t].pending = << >>
           THEN Resolve(t)
           ELSE /\ state' = add_record_info(state, task[t].arg.record_name,
                                            Head(task[t].pending))
                /\ SetTask(t, [task[t] EXCEPT !.pending = Tail(@)])
                /\ Frame

local_get_ioc_records(t) ==
  /\ backend = "local"
  /\ \/ /\ CanDispatch(t)
        /\ \E ioc_name \in IocNames :
             LoadEnter(t, "get_ioc_records", [ioc_name |-> ioc_name])
     \/ /\ At(t, "get_ioc_records", "loaded")
        /\ LET cache == task[t].cache
               ioc_name == task[t].arg.ioc_name
               ioc == FindIoc(cache.iocs, ioc_name)
           IN  IF ~HasIocs(cache) \/ ioc = Null
               THEN Throw(t)
               ELSE /\ state' = set_ioc_records(state, ioc_name, IocRecords(ioc))
                    /\ SetTask(t, [task[t] EXCEPT !.pc = "committed",
                                                  !.ret = Value(IocRecords(ioc))])
                    /\ Frame
     \/ /\ At(t, "get_ioc_records", "committed")
        /\ Resolve(t)

local_get_file_info(t) ==
  /\ backend = "local"
  /\ \/ /\ CanDispatch(t)
        /\ \E filename \in FileNames :
             IF HasKey(state.file_info, filename)
             THEN ReturnNow(t, "get_file_info", [filename |-> filename],
                            Value(state.file_info[filename]))
             ELSE LoadEnter(t, "get_file_info", [filename |-> filename])
     \/ /\ At(t, "get_file_info", "loaded")
        /\ LET cache == task[t].cache
               filename == task[t].arg.filename
           IN  IF ~HasFiles(cache)
               THEN Throw(t)
               ELSE IF ~HasKey(cache.files, filename)
               THEN Resolve(t)
               ELSE LET cached_file_info == cache.files[filename]
                    IN  IF cached_file_info.has_script
                        THEN /\ state' = set_file_info(state, filename, cached_file_info)
                             /\ SetTask(t, [task[t] EXCEPT !.pc = "committed"])
                             /\ Frame
                        ELSE IF cached_file_info.has_lines
                        THEN /\ state' = set_file_info(state, filename,
                                           LineByLineInfo(filename, cached_file_info.lines))
                             /\ SetTask(t, [task[t] EXCEPT !.pc = "committed"])
                             /\ Frame
                        ELSE Resolve(t)
     \/ /\ At(t, "get_file_info", "committed")
        /\ Resolve(t)

local_update_duplicates(t) ==
  /\ backend = "local"
  /\ \/ /\ CanDispatch(t)
        /\ IF DOMAIN state.duplicates # {}
           THEN ReturnNow(t, "update_duplicates", NoArg, Value(state.duplicates))
           ELSE LoadEnter(t, "update_duplicates", NoArg)
     \/ /\ At(t, "update_duplicates", "loaded")
        /\ LET cache == task[t].cache
           IN  IF ~HasIocs(cache)
               THEN Throw(t)
               ELSE /\ state' = set_duplicates(state, ComputeDupes(cache.iocs))
                    /\ SetTask(t, [task[t] EXCEPT !.pc = "committed", !.scans = @ + 1])
                    /\ Frame
     \/ /\ At(t, "update_duplicates", "committed")
        /\ Resolve(t)

local_find_record_matches(t) ==
  /\ backend = "local"
  /\ \/ /\ CanDispatch(t)
        /\ \E arg \in SearchArgs :
             IF arg.pattern = NullPattern
             THEN ReturnNow(t, "find_record_matches", arg, Undefined)
             ELSE IF ~arg.regex /\ HasKey(state.glob_to_pvs, arg.pattern)
             THEN ReturnNow(t, "find_record_matches", arg,
                            Value(state.glob_to_pvs[arg.pattern]))
             ELSE IF arg.regex /\ HasKey(state.regex_to_pvs, arg.pattern)
             THEN ReturnNow(t, "find_record_matches", arg,
                            Value(state.regex_to_pvs[arg.pattern]))
             ELSE LoadEnter(t, "find_record_matches", arg)
     \/ /\ At(t, "find_record_matches", "loaded")
        /\ LET cache == task[t].cache
               arg == task[t].arg
               compiles == IF arg.regex THEN 1 ELSE 0
               matches == ScanMatches(cache.iocs, arg.pattern, arg.regex)
           IN  IF arg.regex /\ ~RegExpCompiles(arg.pattern)
               THEN /\ SetTask(t, [task[t] EXCEPT !.pc = "done", !.status = "returned",
                                                  !.compiles = @ + 1])
                    /\ UNCHANGED state
                    /\ Frame
               ELSE IF ~HasIocs(cache)
               THEN /\ SetTask(t, [task[t] EXCEPT !.pc = "done", !.status = "threw",
                                                  !.compiles = @ + compiles])
                    /\ UNCHANGED state
                    /\ Frame
               ELSE /\ state' = add_record_search_results(state, arg.pattern,
                                                          DedupSorted(matches), arg.regex)
                    /\ SetTask(t, [task[t] EXCEPT !.pc = "committed", !.ret = Value(matches),
                                                  !.compiles = @ + compiles,
                                                  !.scans = @ + 1, !.stored = @ + 1])
                    /\ Frame
     \/ /\ At(t, "find_record_matches", "committed")
        /\ Finally(t)
     \/ /\ At(t, "find_record_matches", "ending")
        /\ Resolve(t)

\* ------------------------------------------------------------- specification
Init ==
  /\ backend \in {"remote", "local"}
  /\ server \in Docs
  /\ state = IF backend = "remote" THEN remote_state ELSE cached_local_state
  /\ task = [t \in Tasks |-> IdleTask]
  /\ nops = 0

Step(t) ==
    \/ remote_update_ioc_info(t)
    \/ update_gateway_info(t)
    \/ update_plugin_info(t)
    \/ get_plugin_nested_keys(t)
    \/ get_plugin_nested_info(t)
    \/ remote_get_record_info(t)
    \/ remote_get_ioc_records(t)
    \/ remote_get_file_info(t)
    \/ remote_update_duplicates(t)
    \/ get_pv_relations(t)
    \/ remote_find_record_matches(t)
    \/ load_cached_whatrecord_data(t)
    \/ local_update_ioc_info(t)
    \/ local_get_record_info(t)
    \/ local_get_ioc_records(t)
    \/ local_get_file_info(t)
    \/ local_update_duplicates(t)
    \/ local_find_record_matches(t)

Next == \E t \in Tasks : Step(t)

Spec == Init /\ [][Next]_vars

\* Raw sequences of the tracker's two mutations, applied to either store.
ApplyStartQuery ==
  /\ nops < MaxOps
  /\ state' = start_query(state)
  /\ nops' = nops + 1
  /\ UNCHANGED << backend, server, task >>

ApplyEndQuery ==
  /\ nops < MaxOps
  /\ state' = end_query(state)
  /\ nops' = nops + 1
  /\ UNCHANGED << backend, server, task >>

NextTracker == ApplyStartQuery \/ ApplyEndQuery

SpecTracker == Init /\ [][NextTracker]_vars

\* One get_record_info or get_file_info of the snapshot backend, over the
\* generated snapshots.
InitScan ==
  /\ backend = "local"
  /\ server \in ScanDocs
  /\ state = cached_local_state
  /\ task = [t \in Tasks |-> IdleTask]
  /\ nops = 0

NextScan ==
  \/ load_cached_whatrecord_data(1)
  \/ local_get_record_info(1)
  \/ local_get_file_info(1)

SpecScan == InitScan /\ [][NextScan]_vars

\* Two dispatches of the snapshot backend, each update_duplicates or a load,
\* in any interleaving, over the generated snapshots of two IOCs.
InitDupes ==
  /\ backend = "local"
  /\ server \in IocDocs
  /\ state = cached_local_state
  /\ task = [t \in Tasks |-> IdleTask]
  /\ nops = 0

NextDupes ==
  \E t \in Tasks :
    \/ load_cached_whatrecord_data(t)
    \/ local_update_duplicates(t)

SpecDupes == InitDupes /\ [][NextDupes]_vars

\* ------------------------------------------------------------- properties
\* start_query commits of task t not yet matched by an end_query commit of t.
Held(t) ==
  IF task[t].begun > task[t].ended THEN task[t].begun - task[t].ended ELSE 0

Quiescent == \A t \in Tasks : task[t].pc \in {"idle", "done"}

IsSearch(t) == task[t].act = "find_record_matches"

SameSearch(t1, t2) ==
  /\ IsSearch(t1) /\ IsSearch(t2)
  /\ task[t1].arg.pattern = task[t2].arg.pattern
  /\ task[t1].arg.regex = task[t2].arg.regex

SnapshotFetches(t) ==
  Cardinality({i \in 1..Len(task[t].reqs) : task[t].reqs[i] = "/cache.json.gz"})

\* The IOCs that expose a name in either namespace.
OwningIocs(iocs, n) ==
  {iocs[i].name : i \in {j \in 1..Len(iocs) :
                           n \in SeqToSet(RecNames(iocs[j].database))
                                 \cup SeqToSet(iocs[j].pva_database)}}

\* The number of record namespaces, over all IOCs, in which a name appears.
NamespaceHits(iocs, n) ==
  Cardinality({<< i, ns >> \in (1..Len(iocs)) \X {"database", "pva_database"} :
                 IF ns = "database"
                 THEN n \in SeqToSet(RecNames(iocs[i].database))
                 ELSE n \in SeqToSet(iocs[i].pva_database)})

\* C1: in every reachable state of either store, query_in_progress is true
\* exactly when some dispatched action has committed start_query and has not
\* yet committed its own matching end_query.
C1_BusyIffOutstanding ==
  state.query_in_progress <=> (\E t \in Tasks : Held(t) > 0)

\* C2: under any sequence of start_query and end_query mutations, the counter
\* is never negative, query_in_progress equals (queries_in_progress > 0), and
\* end_query applied at 0 leaves the counter at 0.
C2_TrackerInvariant ==
  /\ state.queries_in_progress >= 0
  /\ state.query_in_progress = (state.queries_in_progress > 0)
  /\ state.queries_in_progress = 0 => end_query(state).queries_in_progress = 0

\* An end_query was applied to the initial state: the counter stayed at 0.
C2_Witness ==
  /\ nops = 1
  /\ state.queries_in_progress = 0
  /\ ~state.query_in_progress

\* C3: every action that commits start_query commits end_query on every exit
\* path: a task holding an unmatched start_query can always take its next
\* step, a completed task holds none, and once every dispatched action has
\* completed the counter is 0 and query_in_progress is false.
C3_ReleaseOnEveryExitPath ==
  /\ \A t \in Tasks : Held(t) > 0 => task[t].pc # "done" /\ ENABLED Step(t)
  /\ Quiescent => state.queries_in_progress = 0 /\ ~state.query_in_progress

\* Both tasks completed, one after a failed request and one after a successful
\* one, each having committed start_query.
C3_Witness ==
  /\ \A t \in Tasks : task[t].pc = "done" /\ task[t].begun = 1 /\ task[t].reqs # << >>
  /\ task[1].ret = Undefined /\ task[1].status = "returned"
  /\ task[2].ret # Undefined
  /\ state.queries_in_progress = 0

\* C4: when find_record_matches(P) is dispatched after an earlier, successful
\* find_record_matches(P) of the same mode completed, it returns the value the
\* first call returned and performs no network request and no snapshot scan.
C4_CacheHit ==
  \A t1, t2 \in Tasks :
    ( /\ SameSearch(t1, t2)
      /\ t1 \in task[t2].after
      /\ task[t1].status = "returned" /\ task[t1].ret # Undefined
      /\ task[t2].pc = "done" )
    => /\ task[t2].ret = task[t1].ret
       /\ task[t2].reqs = << >>
       /\ task[t2].scans = 0

\* C5: callers that enter load_cached_whatrecord_data while another caller's
\* load is still in flight share one fetch: together they issue one request
\* for /cache.json.gz, commit set_cache once and receive the same snapshot.
C5_AtMostOneFetch ==
  \A t1, t2 \in Tasks :
    t1 \in task[t2].joined
    => /\ SnapshotFetches(t1) + SnapshotFetches(t2) <= 1
       /\ task[t1].cached + task[t2].cached <= 1
       /\ (task[t1].cache # Null /\ task[t2].cache # Null
             => task[t1].cache = task[t2].cache)

\* C6: no dispatched action of either store completes with a thrown error
\* (a rejected promise).
C6_NeverRaises ==
  \A t \in Tasks : task[t].status # "threw"

\* C7: a snapshot-backend regex search for a malformed pattern returns no
\* result, commits no search result (regex_to_pvs never holds the pattern),
\* leaves the tracker as it found it, and constructs the RegExp anew each time.
C7_MalformedRegex ==
  /\ backend = "local" => \A p \in MalformedRegex : ~HasKey(state.regex_to_pvs, p)
  /\ \A t \in Tasks :
       ( /\ backend = "local" /\ IsSearch(t)
         /\ task[t].arg.regex /\ task[t].arg.pattern \in MalformedRegex
         /\ task[t].pc = "done" )
       => /\ task[t].status = "returned" /\ task[t].ret = Undefined
          /\ task[t].stored = 0
          /\ task[t].compiles = 1
          /\ task[t].begun = task[t].ended
          /\ (\A u \in Tasks \ {t} : task[u].pc = "idle" \/ u \in task[t].after)
               => state.queries_in_progress = 0

\* The same malformed regex searched twice in sequence on a loaded snapshot.
C7_Witness ==
  /\ backend = "local"
  /\ SameSearch(1, 2)
  /\ task[1].arg.regex /\ task[1].arg.pattern \in MalformedRegex
  /\ task[1].pc = "done" /\ task[2].pc = "done"
  /\ 1 \in task[2].after
  /\ task[2].cache # Null /\ HasIocs(task[2].cache)
  /\ task[2].compiles = 1

\* C8: the map committed by the snapshot backend's update_duplicates holds
\* exactly the names exposed by two or more distinct IOCs, each mapped to the
\* IOCs that expose it.
C8_DuplicateMap ==
  \A t \in Tasks :
    ( /\ backend = "local" /\ task[t].act = "update_duplicates"
      /\ task[t].pc = "committed" )
    => LET iocs == task[t].cache.iocs
       IN  /\ DOMAIN state.duplicates =
                {n \in PVNames : Cardinality(OwningIocs(iocs, n)) >= 2}
           /\ \A n \in DOMAIN state.duplicates :
                SeqToSet(state.duplicates[n]) = OwningIocs(iocs, n)

\* C9: after the snapshot backend's get_record_info for a name that appears
\* in k >= 1 record namespaces, record_info holds for that name a result with
\* k entries.
C9_AllHitsAccumulate ==
  \A t \in Tasks :
    ( /\ backend = "local" /\ task[t].act = "get_record_info"
      /\ task[t].pc = "done" /\ task[t].scans > 0
      /\ NamespaceHits(task[t].cache.iocs, task[t].arg.record_name) >= 1 )
    => LET n == task[t].arg.record_name
       IN  /\ HasKey(state.record_info, n)
           /\ Len(state.record_info[n].info) = NamespaceHits(task[t].cache.iocs, n)

\* C10: the snapshot backend's get_record_info for a name found in no IOC
\* yields a result with present = false and no entries, and get_ioc_records
\* and get_file_info for an unknown name complete without raising.
C10_AbsentIsAValue ==
  \A t \in Tasks :
    ( /\ backend = "local" /\ task[t].pc = "done"
      /\ task[t].cache # Null /\ HasIocs(task[t].cache) /\ HasFiles(task[t].cache) )
    => /\ ( /\ task[t].act = "get_record_info" /\ task[t].scans > 0
            /\ NamespaceHits(task[t].cache.iocs, task[t].arg.record_name) = 0 )
          => LET n == task[t].arg.record_name
                 absent == [pv_name |-> n, present |-> FALSE, info |-> << >>]
             IN  \/ task[t].ret = Value(absent)
                 \/ HasKey(state.record_info, n) /\ state.record_info[n] = absent
       /\ task[t].act \in {"get_ioc_records", "get_file_info"}
          => task[t].status # "threw"

\* The names a snapshot exposes in any namespace of any IOC.
ExposedNames(iocs) == {n \in PVNames : NamespaceHits(iocs, n) >= 1}

\* The pattern cache of a search mode.
PatternCache(s, regex) == IF regex THEN s.regex_to_pvs ELSE s.glob_to_pvs

\* The task ran on a loaded snapshot that has both top-level keys.
OnFullSnapshot(t) ==
  /\ backend = "local"
  /\ task[t].cache # Null
  /\ HasIocs(task[t].cache) /\ HasFiles(task[t].cache)

\* C11: a snapshot-backend action that resolved its query from the snapshot
\* (the first, uncached call) returns the resolved value, as the remote action
\* does: the IOC metadata list, the duplicate map, the WhatRecordResult of a
\* known record, the FileInfo of a known file.
C11_SameResolvedValue ==
  \A t \in Tasks :
    (OnFullSnapshot(t) /\ task[t].pc = "done" /\ task[t].status = "returned")
    => LET cache == task[t].cache
           arg == task[t].arg
       IN  /\ task[t].act = "update_ioc_info"
                => task[t].ret = Value([i \in 1..Len(cache.iocs) |-> cache.iocs[i].md])
           /\ task[t].act = "update_duplicates"
                => task[t].ret # Undefined
           /\ (task[t].act = "get_record_info"
                 /\ NamespaceHits(cache.iocs, arg.record_name) >= 1)
                => task[t].ret # Undefined
           /\ (task[t].act = "get_file_info"
                 /\ HasKey(cache.files, arg.filename)
                 /\ (cache.files[arg.filename].has_script
                       \/ cache.files[arg.filename].has_lines))
                => task[t].ret # Undefined

\* C12: the value the snapshot backend's find_record_matches returns after a
\* scan (cache miss) is the sorted sequence, without repetition, of the exposed
\* names the matcher accepts, and the pattern cache holds that same sequence.
C12_ScanReturnsWhatItCommits ==
  \A t \in Tasks :
    ( /\ backend = "local" /\ IsSearch(t)
      /\ task[t].scans > 0 /\ task[t].pc = "committed" )
    => LET arg == task[t].arg
           accepted == {n \in ExposedNames(task[t].cache.iocs) :
                          Matcher(arg.pattern, arg.regex, n)}
       IN  /\ task[t].ret = Value(SortedSeq(accepted))
           /\ HasKey(PatternCache(state, arg.regex), arg.pattern)
           /\ task[t].ret = Value(PatternCache(state, arg.regex)[arg.pattern])

\* The positions of the IOCs whose traditional database has the name as a key.
DatabaseOwners(iocs, n) ==
  {i \in 1..Len(iocs) : n \in SeqToSet(RecNames(iocs[i].database))}

\* The name is a key of exactly one IOC's database and of no pva_database.
SinglyOwned(iocs, n) ==
  /\ Cardinality(DatabaseOwners(iocs, n)) = 1
  /\ \A i \in 1..Len(iocs) : n \notin SeqToSet(iocs[i].pva_database)

\* C13: for a name that is a key of exactly one IOC's traditional database and
\* of no group database, the snapshot backend's get_record_info leaves in
\* record_info a result with pv_name the name, present true and exactly one
\* entry: that IOC's metadata, the record instance, and as definition the
\* entry of the IOC's record-type table for the instance's type, or null when
\* the type is not registered or the IOC has no database definition.
C13_SinglyOwnedRoundTrip ==
  \A t \in Tasks :
    ( /\ backend = "local" /\ task[t].act = "get_record_info"
      /\ task[t].pc = "done" /\ task[t].scans > 0
      /\ SinglyOwned(task[t].cache.iocs, task[t].arg.record_name) )
    => LET n == task[t].arg.record_name
           iocs == task[t].cache.iocs
           ioc == iocs[CHOOSE i \in DatabaseOwners(iocs, n) : TRUE]
           instance == CHOOSE r \in SeqToSet(ioc.database) : r.name = n
           registered == ioc.has_dbd /\ instance.record_type \in ioc.record_types
       IN  /\ task[t].status = "returned"
           /\ HasKey(state.record_info, n)
           /\ state.record_info[n].pv_name = n
           /\ state.record_info[n].present
           /\ Len(state.record_info[n].info) = 1
           /\ LET entry == state.record_info[n].info[1]
              IN  /\ entry.name = n
                  /\ entry.ioc = ioc.md
                  /\ entry.record.instance = instance
                  /\ entry.pva_group = Null
                  /\ registered => entry.record.definition
                                     = [record_type |-> instance.record_type]
                  /\ ~registered => entry.record.definition = Null

\* pv1, of a registered type, looked up in a snapshot where only IOC A has it
\* while IOC B holds other records.
C13_Witness ==
  /\ At(1, "get_record_info", "done") /\ task[1].scans = 1
  /\ task[1].arg.record_name = 1
  /\ SinglyOwned(task[1].cache.iocs, 1)
  /\ DatabaseOwners(task[1].cache.iocs, 1) = {1}
  /\ Len(task[1].cache.iocs[2].database) > 0
  /\ HasKey(state.record_info, 1)
  /\ state.record_info[1].info[1].record.definition # Null

\* C14: for a snapshot file entry with raw lines and no script, the snapshot
\* backend's get_file_info commits a FileInfo whose script has the file's path
\* and one entry per raw line, in order, the i-th (from 1) holding the i-th
\* line and the context (path, i); an entry that has a script is committed
\* as it is.
C14_FileInfoFallback ==
  \A t \in Tasks :
    ( /\ backend = "local" /\ task[t].act = "get_file_info"
      /\ task[t].pc = "done" /\ task[t].status = "returned"
      /\ task[t].cache # Null /\ HasFiles(task[t].cache)
      /\ HasKey(task[t].cache.files, task[t].arg.filename) )
    => LET f == task[t].arg.filename
           e == task[t].cache.files[f]
       IN  /\ e.has_script
                => HasKey(state.file_info, f) /\ state.file_info[f] = e
           /\ (~e.has_script /\ e.has_lines)
                => /\ HasKey(state.file_info, f)
                   /\ LET script == state.file_info[f].script
                      IN  /\ script.path = f
                          /\ Len(script.lines) = Len(e.lines)
                          /\ \A i \in 1..Len(e.lines) :
                               /\ script.lines[i].line = e.lines[i]
                               /\ script.lines[i].context = << << f, i >> >>

\* A file entry with two different raw lines and no script was looked up.
C14_Witness ==
  /\ At(1, "get_file_info", "done") /\ task[1].status = "returned"
  /\ task[1].cache # Null /\ HasFiles(task[1].cache)
  /\ HasKey(task[1].cache.files, task[1].arg.filename)
  /\ LET e == task[1].cache.files[task[1].arg.filename]
     IN  ~e.has_script /\ e.has_lines /\ Len(e.lines) >= 2 /\ e.lines[1] # e.lines[2]
  /\ HasKey(state.file_info, task[1].arg.filename)

\* The task's network request failed (the remote action then returns undefined).
RequestFailed(t) ==
  backend = "remote" /\ task[t].reqs # << >> /\ task[t].ret = Undefined

\* C15: in both backends a search whose pattern is absent (null or undefined)
\* or the empty string is a match-all search: unless its request failed or
\* the snapshot could not be scanned, it returns every PV name of the
\* deployment.
C15_EmptyPatternMatchesAll ==
  \A t \in Tasks :
    ( /\ IsSearch(t) /\ task[t].arg.pattern \in {NullPattern, ""}
      /\ task[t].pc = "done" /\ task[t].status = "returned"
      /\ ~RequestFailed(t) )
    => /\ task[t].ret # Undefined
       /\ SeqToSet(task[t].ret.v) = ExposedNames(server.iocs)

SnapshotQueries ==
  {"update_ioc_info", "get_record_info", "get_ioc_records", "get_file_info",
   "update_duplicates", "find_record_matches"}

\* C16: a snapshot-backend query that ran on a snapshot lacking the key `iocs`
\* or the key `files` (the fallback {} of a failed fetch included) completes
\* without error, as on a snapshot where the key holds an empty mapping.
C16_MissingKeyIsEmpty ==
  \A t \in Tasks :
    ( /\ backend = "local" /\ task[t].act \in SnapshotQueries
      /\ task[t].cache # Null
      /\ ~(HasIocs(task[t].cache) /\ HasFiles(task[t].cache))
      /\ task[t].pc = "done" )
    => task[t].status = "returned"

\* The step of task t in which its snapshot fetch fails.
FetchFails(t) == task[t].pc = "ld_net" /\ task'[t].pc = "ld_ending"

\* The step in which a directly dispatched load_cached_whatrecord_data of
\* task t completes.
LoadCompletes(t) ==
  /\ task[t].pc # "done" /\ task'[t].pc = "done"
  /\ task'[t].act = "load_cached_whatrecord_data"

\* C17: the step in which the snapshot fetch fails leaves state.cache as it
\* was (no set_cache), makes {} the load's value and commits the one end_query
\* matching its start_query; the load then completes without raising and
\* without a further end_query, returning {}.  A load entered when state.cache
\* is non-null takes state.cache as its value at once, requests nothing and
\* leaves the store, the tracker included, untouched.
C17_LoadFallback ==
  [][backend = "local" => \A t \in Tasks :
       /\ FetchFails(t)
            => /\ state'.cache = state.cache
               /\ task'[t].cached = 0
               /\ task'[t].cache = EmptyDoc
               /\ task'[t].begun = 1 /\ task'[t].ended = 1
               /\ state' = end_query(state)
       /\ LoadCompletes(t)
            => /\ task'[t].status = "returned"
               /\ task'[t].ret = Value(task[t].cache)
               /\ task'[t].begun = task'[t].ended
               /\ state' = state
       /\ (task[t].pc = "idle" /\ task'[t].pc = "loaded")
            => /\ state.cache # Null
               /\ task'[t].cache = state.cache
               /\ task'[t].reqs = << >>
               /\ task'[t].begun = 0 /\ task'[t].ended = 0
               /\ state' = state
       /\ (task[t].pc = "idle" /\ state.cache # Null
             /\ task'[t].act = "load_cached_whatrecord_data")
            => task'[t].pc = "loaded"
    ]_vars

\* A directly dispatched load whose fetch failed has completed with {}, the
\* server holding a snapshot with IOCs, and a later load has hit nothing
\* cached and fetched that snapshot.
C17_Witness ==
  /\ backend = "local" /\ HasIocs(server)
  /\ At(1, "load_cached_whatrecord_data", "done")
  /\ task[1].reqs = << "/cache.json.gz" >>
  /\ task[1].ret = Value(EmptyDoc)
  /\ At(2, "load_cached_whatrecord_data", "done")
  /\ 1 \in task[2].after
  /\ task[2].ret = Value(server)
  /\ state.cache = server

\* The task resolved a request: it asked the network or scanned the snapshot.
Resolved(t) == task[t].reqs # << >> \/ task[t].scans > 0

\* C18: a dispatch never commits more end_query than it committed start_query
\* before; at the suspension that follows the commit of its result its own
\* start_query is still unmatched; and a dispatch that resolved a request and
\* returned committed start_query and exactly as many end_query.
C18_LifecycleOrdering ==
  \A t \in Tasks :
    /\ task[t].ended <= task[t].begun
    /\ task[t].pc = "committed" => Held(t) > 0
    /\ (task[t].pc = "done" /\ task[t].status = "returned" /\ Resolved(t))
         => task[t].begun = 1 /\ task[t].ended = 1

\* Requests of task t to /api/pv/matches.
MatchRequests(t) ==
  Cardinality({i \in 1..Len(task[t].reqs) : task[t].reqs[i] = "/api/pv/matches"})

\* C19: two searches for the same (pattern, is_regex), however interleaved,
\* commit add_record_search_results at most once between them, and when both
\* return a result at most one request or snapshot scan was made for the key.
C19_KeyWrittenOnce ==
  \A t1, t2 \in Tasks :
    (t1 # t2 /\ SameSearch(t1, t2))
    => /\ task[t1].stored + task[t2].stored <= 1
       /\ (task[t1].ret # Undefined /\ task[t2].ret # Undefined)
            => MatchRequests(t1) + MatchRequests(t2)
                 + task[t1].scans + task[t2].scans <= 1

\* The store's cache slots: its state without the two tracker fields.
CacheSlots(s) == [s EXCEPT !.queries_in_progress = 0, !.query_in_progress = FALSE]

\* The step of task t in which its request to the remote API fails.
RequestFails(t) == task[t].pc = "net" /\ task'[t].pc = "ending"

\* C20: in the remote store the step in which a request fails commits
\* end_query and nothing else and fixes undefined as the return value; no step
\* of a task that has no result (before, at and after the failure) changes a
\* cache slot; the failed action completes by returning undefined with its one
\* start_query matched, so that the counter is again the number of other
\* tasks holding a start_query, and with no other action dispatched the store
\* is in its initial state.
C20_FailedQueryCommitsNothing ==
  [][backend = "remote" => \A t \in Tasks :
       /\ RequestFails(t)
            => /\ state' = end_query(state)
               /\ task'[t].ret = Undefined
       /\ (task'[t] # task[t] /\ task'[t].ret = Undefined)
            => CacheSlots(state') = CacheSlots(state)
       /\ (task[t].pc = "ending" /\ task'[t].pc = "done" /\ task[t].ret = Undefined)
            => /\ task'[t].status = "returned"
               /\ task'[t].begun = 1 /\ task'[t].ended = 1
               /\ state'.queries_in_progress
                    = Cardinality({u \in Tasks : task'[u].begun > task'[u].ended})
               /\ state'.query_in_progress = (state'.queries_in_progress > 0)
               /\ (\A u \in Tasks \ {t} : task[u].pc = "idle") => state' = remote_state
    ]_vars

\* An action whose request failed has completed after another action had
\* committed its result: the slots hold that result and the tracker is idle.
C20_Witness ==
  /\ backend = "remote"
  /\ task[1].pc = "done" /\ task[1].ret # Undefined
  /\ task[2].pc = "done" /\ 1 \in task[2].after
  /\ task[2].reqs # << >> /\ task[2].ret = Undefined /\ task[2].status = "returned"
  /\ CacheSlots(state) # remote_state
  /\ state.queries_in_progress = 0 /\ ~state.query_in_progress

\* C21: once an update_duplicates of the snapshot backend has completed, a
\* later update_duplicates returns the stored map without loading the
\* snapshot, without scanning and without committing set_duplicates, also
\* when the stored map is empty.
C21_DuplicatesComputedOnce ==
  \A t1, t2 \in Tasks :
    ( /\ backend = "local"
      /\ task[t1].act = "update_duplicates" /\ task[t2].act = "update_duplicates"
      /\ t1 \in task[t2].after
      /\ task[t1].status = "returned" /\ task[t1].scans = 1
      /\ task[t2].pc # "idle" )
    => /\ task[t2].pc = "done" /\ task[t2].status = "returned"
       /\ task[t2].ret = Value(state.duplicates)
       /\ task[t2].cache = Null
       /\ task[t2].scans = 0

\* C22: in the snapshot backend the only URL an action ever requests is the
\* snapshot document, and an action that has committed a result or completed
\* a resolution holds the snapshot that load_cached_whatrecord_data gave it.
C22_OnlySnapshotFetch ==
  backend = "local" =>
    \A t \in Tasks :
      /\ \A i \in 1..Len(task[t].reqs) : task[t].reqs[i] = "/cache.json.gz"
      /\ task[t].pc \in {"committed", "ending"} => task[t].cache # Null

\* C23: in both backends, a find_record_matches dispatched after a search for
\* the same pattern has committed its result: in the same mode it returns the
\* stored list as it is, whatever its max_pvs, with no request, no snapshot
\* load and no scan; in the other mode it is not served from that entry, so
\* if it returns a list it has resolved it itself.
C23_KeyIgnoresMaxPvs ==
  \A t1, t2 \in Tasks :
    ( /\ IsSearch(t1) /\ IsSearch(t2)
      /\ task[t1].arg.pattern = task[t2].arg.pattern
      /\ t1 \in task[t2].after /\ task[t1].stored = 1
      /\ task[t2].pc = "done" )
    => LET arg == task[t2].arg
       IN  /\ task[t1].arg.regex = arg.regex
                => /\ task[t2].status = "returned"
                   /\ task[t2].reqs = << >>
                   /\ task[t2].cache = Null
                   /\ task[t2].scans = 0 /\ task[t2].stored = 0
                   /\ HasKey(PatternCache(state, arg.regex), arg.pattern)
                   /\ task[t2].ret = Value(PatternCache(state, arg.regex)[arg.pattern])
           /\ (task[t1].arg.regex # arg.regex /\ task[t2].ret # Undefined)
                => Resolved(t2) /\ task[t2].stored = 1

\* A glob search for "pv1" with one limit committed its result, and a later
\* glob search for "pv1" with another limit has completed.
C23_Witness ==
  /\ SameSearch(1, 2)
  /\ task[1].arg.pattern = "pv1" /\ ~task[1].arg.regex
  /\ task[1].arg.max_pvs # task[2].arg.max_pvs
  /\ task[1].stored = 1 /\ 1 \in task[2].after
  /\ task[2].pc = "done" /\ task[2].ret # Undefined
  /\ HasKey(state.glob_to_pvs, "pv1") /\ ~HasKey(state.regex_to_pvs, "pv1")

\* The server holding a snapshot other than {}, the task's load fetched and
\* failed (its value is the fallback {}) / succeeded (the served snapshot).
LoadFailed(t) ==
  server # EmptyDoc /\ SnapshotFetches(t) = 1 /\ task[t].cache = EmptyDoc

LoadSucceeded(t) ==
  server # EmptyDoc /\ SnapshotFetches(t) = 1 /\ task[t].cache = server

\* The task has entered load_cached_whatrecord_data.
EnteredLoad(t) == task[t].pc \in LoadInFlight \/ task[t].cache # Null

\* C24: as long as no load has received the served snapshot state.cache is
\* null, and a load entered after a failed one (no fetch having succeeded)
\* commits start_query and issues a fetch of its own; a load entered after a
\* task whose fetch succeeded has completed issues no fetch and takes the
\* stored snapshot.
C24_FailureNotMemoized ==
  (backend = "local" /\ server # EmptyDoc) =>
    /\ (\A t \in Tasks : task[t].cache # server) => state.cache = Null
    /\ \A t1, t2 \in Tasks :
         (t1 \in task[t2].after /\ EnteredLoad(t2))
         => /\ LoadFailed(t1)
                 => /\ task[t2].begun = 1
                    /\ task[t2].pc # "ld_started" => SnapshotFetches(t2) = 1
            /\ LoadSucceeded(t1)
                 => /\ SnapshotFetches(t2) = 0 /\ task[t2].begun = 0
                    /\ task[t2].cache = server /\ state.cache = server

\* After a load whose fetch failed, a second load fetched again and succeeded:
\* the snapshot is stored.
C24_Witness ==
  /\ backend = "local"
  /\ task[1].pc = "done" /\ LoadFailed(1)
  /\ 1 \in task[2].after
  /\ task[2].pc = "done" /\ LoadSucceeded(2)
  /\ state.cache = server /\ HasIocs(server)

====
